---- MODULE Spec2Model ----
(***************************************************************************)
(* FindStock (src/main.py): the market-data acquisition pipeline.          *)
(*                                                                         *)
(*   get_ticker_data    the provider cascade for one identifier            *)
(*   get_market_data    the batch run over an identifier list              *)
(*   save_generic_cache / load_generic_cache   the JSON cache file         *)
(*                                                                         *)
(* Two specifications share the module:                                    *)
(*   SpecTicker  one call of get_ticker_data on every provider outcome     *)
(*   Spec        batch runs of get_market_data against the cache file      *)
(*   SpecScreen  one call of process_ticker on every fundamentals record   *)
(*   SpecStartup the load of the result cache when a session starts        *)
(*   SpecAnalyze one analyze_stocks call, its tasks in every order         *)
(*   SpecAge     Spec with the time at which every held quote was fetched  *)
(*   SpecOverlap the two call sites of get_market_data at work at once     *)
(*   SpecDetails one call of get_stock_details_cached                      *)
(*   SpecStore   save_cache and load_cache on the result cache files       *)
(*                                                                         *)
(* Prices are held in tenths of a dollar (the source's 2.5 is 25, its      *)
(* 100.0 is 1000).  A Python value that may be None is a sequence of       *)
(* length 0 (None) or 1 (the value).                                       *)
(***************************************************************************)
EXTENDS Integers, Sequences, FiniteSets, TLC

VARIABLES
    tcall,      \* SpecTicker: the call in hand: ticker, provider outcomes, pc
    tret,       \* SpecTicker: what get_ticker_data returned, and what it consulted
    now,        \* the clock, in ticks of TickSeconds
    file,       \* market_data.json
    run,        \* the locals of each get_market_data run
    screen,     \* SpecScreen: one call of process_ticker, its inputs and its result
    startup,    \* SpecStartup: the result cache files and st.session_state
    analysis,   \* SpecAnalyze: the locals of one analyze_stocks call
    born,       \* SpecAge: history, the time each held quote was fetched
    details,    \* SpecDetails: one call of get_stock_details_cached
    store       \* SpecStore: the result cache files under save_cache and load_cache

vars == <<tcall, tret, now, file, run, screen, startup, analysis, born, details, store>>

\* What the get_market_data and get_ticker_data steps leave alone.
others == <<screen, startup, analysis, details, store>>

----------------------------------------------------------------------------
(* Python values *)

None == <<>>

Some(v) == <<v>>

\* Python truthiness of an optional number: None and 0 are falsy.
Truthy(x) == x # None /\ x[1] # 0

\* A price of the source, in tenths of a dollar.
Price(dollars) == 10 * dollars

\* The value get_market_data treats as "not genuinely fetched" (100.0).
SentinelPrice == Price(100)

----------------------------------------------------------------------------
(* Identifiers: strings as sequences of characters *)

V_ == <<"V">>

KO_ == <<"K", "O">>

BRK_DOT_B == <<"B", "R", "K", ".", "B">>

BRK_DASH_B == <<"B", "R", "K", "-", "B">>

\* Normalize with the replacement the other way round.
NormalizeSwapped(t) == [i \in DOMAIN t |-> IF t[i] = "-" THEN "." ELSE t[i]]

\* t.replace('.', '-')
Normalize(t) == [i \in DOMAIN t |-> IF t[i] = "." THEN "-" ELSE t[i]]

\* The identifiers a caller may pass.
RawTickers == {V_, BRK_DOT_B, BRK_DASH_B}

Tickers == {Normalize(t) : t \in RawTickers}

Quote(cp, lo, hi) == [current_price |-> cp, year_low |-> lo, year_high |-> hi]

NoQuote == Quote(None, None, None)

\* fallback_market_data: the entries of the identifiers in use.
fallback_market_data ==
    (V_ :> Quote(Some(Price(260)), Some(Price(220)), Some(Price(280))))
    @@ (KO_ :> Quote(Some(Price(63)), Some(Price(54)), Some(Price(65))))

\* fallback_market_data.get(ticker, {}).get(field)
FallbackGet(ticker, field) ==
    IF ticker \in DOMAIN fallback_market_data
    THEN fallback_market_data[ticker][field]
    ELSE None

----------------------------------------------------------------------------
(* Provider outcomes: the inputs of one get_ticker_data call *)

\* What the market really quotes; what a provider answers when it answers.
TruePrice == Some(Price(150))

TrueLow == Some(Price(120))

TrueHigh == Some(Price(180))

\* A network call ends in one of three kinds: "exception" (it raises: timeout,
\* HTTP error, connection error), "malformed" (a payload of the wrong shape,
\* which raises at the first access) or "ok" (a payload).

\* yf.Ticker(ticker).info
YfOutcomes ==
    {[kind |-> k, currentPrice |-> None, fiftyTwoWeekLow |-> None, fiftyTwoWeekHigh |-> None] :
        k \in {"exception", "malformed"}}
    \cup
    [kind : {"ok"},
     currentPrice : {None, Some(0), Some(SentinelPrice), TruePrice},
     fiftyTwoWeekLow : {None, TrueLow},
     fiftyTwoWeekHigh : {None, TrueHigh}]

\* st.secrets.get(provider, {}).get("api_key")
KeyStates == {"configured", "missing"}

\* GET finnhub.io/api/v1/quote
FinnhubQuoteOutcomes ==
    {[kind |-> k, c |-> None] : k \in {"exception", "malformed"}}
    \cup [kind : {"ok"}, c : {None, Some(0), TruePrice}]

\* GET finnhub.io/api/v1/stock/metric
FinnhubMetricOutcomes ==
    {[kind |-> k, low |-> None, high |-> None] : k \in {"exception", "malformed"}}
    \cup [kind : {"ok"}, low : {None, TrueLow}, high : {None, TrueHigh}]

\* Python truthiness of an optional string: None and "" are falsy.
TruthyStr(x) == x # None /\ x[1] # ""

IsNumeric(s) == s \in {"0.0000", "150.0000", "120.0000", "180.0000"}

\* float(s), for a numeric s, in tenths.
Float(s) ==
    CASE s = "0.0000" -> 0
      [] s = "150.0000" -> Price(150)
      [] s = "120.0000" -> Price(120)
      [] s = "180.0000" -> Price(180)

\* GET alphavantage.co/query?function=GLOBAL_QUOTE
AlphaVantageOutcomes ==
    {[kind |-> k, price |-> None, low |-> None, high |-> None] : k \in {"exception", "malformed"}}
    \cup
    [kind : {"ok"},
     price : {None, Some(""), Some("n/a"), Some("0.0000"), Some("150.0000")},
     low : {None, Some("n/a"), Some("120.0000")},
     high : {None, Some("180.0000")}]

Envs ==
    [yf : YfOutcomes,
     finnhub_key : KeyStates,
     finnhub_quote : FinnhubQuoteOutcomes,
     finnhub_metric : FinnhubMetricOutcomes,
     alpha_vantage_key : KeyStates,
     alpha_vantage : AlphaVantageOutcomes]

----------------------------------------------------------------------------
(* get_ticker_data: the nested try/except cascade *)

\* What a try block hands on: it raised (exc), or it returned data; log is the
\* sequence of collaborators it touched, in order.
Raised(log) == [exc |-> TRUE, data |-> NoQuote, log |-> log]

Returned(data, log) == [exc |-> FALSE, data |-> data, log |-> log]

\* PrimaryBlock raising on an answer without a price, as a chain that advances
\* on missing fields would.
PrimaryBlockStrict(ticker, e) ==
    IF e.yf.kind # "ok" \/ ~Truthy(e.yf.currentPrice)
    THEN Raised(<<"yf.info">>)
    ELSE Returned(Quote(e.yf.currentPrice, e.yf.fiftyTwoWeekLow, e.yf.fiftyTwoWeekHigh),
                  <<"yf.info">>)

\* The outer try block: yfinance, then the static table for the fields that
\* are still falsy.
PrimaryBlock(ticker, e) ==
    IF e.yf.kind # "ok"
    THEN Raised(<<"yf.info">>)
    ELSE
        LET current_price == e.yf.currentPrice
            year_low == e.yf.fiftyTwoWeekLow
            year_high == e.yf.fiftyTwoWeekHigh
        IN  IF ~Truthy(current_price) \/ ~Truthy(year_low) \/ ~Truthy(year_high)
            THEN Returned(
                    Quote(IF ~Truthy(current_price)
                             THEN FallbackGet(ticker, "current_price") ELSE current_price,
                          IF ~Truthy(year_low)
                             THEN FallbackGet(ticker, "year_low") ELSE year_low,
                          IF ~Truthy(year_high)
                             THEN FallbackGet(ticker, "year_high") ELSE year_high),
                    <<"yf.info", "static">>)
            ELSE Returned(Quote(current_price, year_low, year_high), <<"yf.info">>)

\* FinnhubBlock without the key check: the request goes out with no token.
FinnhubBlockNoKeyCheck(ticker, e) ==
    IF e.finnhub_quote.kind # "ok" \/ e.finnhub_key # "configured"
    THEN Raised(<<"finnhub.key", "finnhub.quote">>)
    ELSE IF e.finnhub_metric.kind # "ok"
    THEN Raised(<<"finnhub.key", "finnhub.quote", "finnhub.metric">>)
    ELSE IF Truthy(e.finnhub_quote.c)
    THEN Returned(Quote(e.finnhub_quote.c, e.finnhub_metric.low, e.finnhub_metric.high),
                  <<"finnhub.key", "finnhub.quote", "finnhub.metric">>)
    ELSE Raised(<<"finnhub.key", "finnhub.quote", "finnhub.metric">>)

\* The first handler's try block: Finnhub.
FinnhubBlock(ticker, e) ==
    IF e.finnhub_key # "configured"
    THEN Raised(<<"finnhub.key">>)
    ELSE IF e.finnhub_quote.kind # "ok"
    THEN Raised(<<"finnhub.key", "finnhub.quote">>)
    ELSE IF e.finnhub_metric.kind # "ok"
    THEN Raised(<<"finnhub.key", "finnhub.quote", "finnhub.metric">>)
    ELSE IF Truthy(e.finnhub_quote.c)
    THEN Returned(Quote(e.finnhub_quote.c, e.finnhub_metric.low, e.finnhub_metric.high),
                  <<"finnhub.key", "finnhub.quote", "finnhub.metric">>)
    ELSE Raised(<<"finnhub.key", "finnhub.quote", "finnhub.metric">>)

\* float(x) if x else None; exc when float raises.
FloatOrNone(x) ==
    IF ~TruthyStr(x) THEN [exc |-> FALSE, val |-> None]
    ELSE IF IsNumeric(x[1]) THEN [exc |-> FALSE, val |-> Some(Float(x[1]))]
    ELSE [exc |-> TRUE, val |-> None]

\* The second handler's try block: Alpha Vantage.
AlphaVantageBlock(ticker, e) ==
    IF e.alpha_vantage_key # "configured"
    THEN Raised(<<"alpha_vantage.key">>)
    ELSE IF e.alpha_vantage.kind # "ok"
    THEN Raised(<<"alpha_vantage.key", "alpha_vantage.quote">>)
    ELSE
        LET log == <<"alpha_vantage.key", "alpha_vantage.quote">>
            current_price == FloatOrNone(e.alpha_vantage.price)
            year_low == FloatOrNone(e.alpha_vantage.low)
            year_high == FloatOrNone(e.alpha_vantage.high)
        IN  IF TruthyStr(e.alpha_vantage.price)
            THEN IF current_price.exc \/ year_low.exc \/ year_high.exc
                 THEN Raised(log)
                 ELSE Returned(Quote(current_price.val, year_low.val, year_high.val), log)
            ELSE Raised(log)

\* LastHandler letting the exception through.
LastHandlerReraises(log) == [raised |-> TRUE, data |-> NoQuote, log |-> log]

\* The last handler: "do not use defaults, only log the error".
LastHandler(log) == [raised |-> FALSE, data |-> NoQuote, log |-> log]

get_ticker_data(ticker, e) ==
    LET p == PrimaryBlock(ticker, e) IN
    IF ~p.exc THEN [raised |-> FALSE, data |-> p.data, log |-> p.log]
    ELSE
        LET f == FinnhubBlock(ticker, e) IN
        IF ~f.exc THEN [raised |-> FALSE, data |-> f.data, log |-> p.log \o f.log]
        ELSE
            LET a == AlphaVantageBlock(ticker, e) IN
            IF ~a.exc THEN [raised |-> FALSE, data |-> a.data, log |-> p.log \o f.log \o a.log]
            ELSE LastHandler(p.log \o f.log \o a.log)

\* The members of a log that belong to one provider.
Events(log, names) == {i \in DOMAIN log : log[i] \in names}

----------------------------------------------------------------------------
(* SpecTicker: one call of get_ticker_data for every input *)

NoCall == [pc |-> "none", ticker |-> <<>>, e |-> <<>>]

NoReturn == [raised |-> FALSE, data |-> NoQuote, log |-> <<>>]

InitTicker ==
    /\ tcall \in [pc : {"call"}, ticker : Tickers, e : Envs]
    /\ tret = NoReturn

\* The call runs to its return.
TickerReturn ==
    /\ tcall.pc = "call"
    /\ tret' = get_ticker_data(tcall.ticker, tcall.e)
    /\ tcall' = [tcall EXCEPT !.pc = "returned"]

----------------------------------------------------------------------------
(* The cache file: save_generic_cache, load_generic_cache *)

\* Seconds in one tick of the clock.
TickSeconds == 43200

\* The clock stops here.
MaxNow == 2

\* ttl=3600*24
DefaultTtl == 3600 * 24

\* time.time()
Time(tick) == tick * TickSeconds

EmptyDict == <<>>

\* What market_data.json may be: no file, a file open() cannot read, a file
\* json.load rejects, a JSON object without 'timestamp' or without 'ttl', or a
\* record {data, timestamp, ttl}.
BrokenFile(kind) == [kind |-> kind, data |-> EmptyDict, timestamp |-> 0, ttl |-> 0]

BrokenKinds == {"unreadable", "invalid_json", "no_timestamp", "no_ttl"}

Record(data, timestamp, ttl) ==
    [kind |-> "record", data |-> data, timestamp |-> timestamp, ttl |-> ttl]

\* How the write ends: it succeeds, open(cache_file, 'w') raises (the file is
\* untouched), or json.dump raises after open truncated the file.
SaveOutcomes == {"ok", "open_raises", "dump_raises"}

\* save_generic_cache without its except clause.
SaveUnhandled(f, data, clock, ttl, outcome) ==
    CASE outcome = "ok" ->
            [file |-> Record(data, clock, ttl), returned |-> TRUE, raised |-> FALSE]
      [] outcome = "open_raises" ->
            [file |-> f, returned |-> FALSE, raised |-> TRUE]
      [] outcome = "dump_raises" ->
            [file |-> BrokenFile("invalid_json"), returned |-> FALSE, raised |-> TRUE]

\* Lines 317-337.
save_generic_cache(f, data, clock, ttl, outcome) ==
    CASE outcome = "ok" ->
            [file |-> Record(data, clock, ttl), returned |-> TRUE, raised |-> FALSE]
      [] outcome = "open_raises" ->
            [file |-> f, returned |-> FALSE, raised |-> FALSE]
      [] outcome = "dump_raises" ->
            [file |-> BrokenFile("invalid_json"), returned |-> FALSE, raised |-> FALSE]

\* Fresh with the boundary moved: a record exactly ttl old still counts.
FreshInclusive(f, clock) == clock - f.timestamp <= f.ttl

\* The expiry test of load_generic_cache.
Fresh(f, clock) == clock - f.timestamp < f.ttl

\* The try block of load_generic_cache.
LoadBlock(f, clock) ==
    IF f.kind \in BrokenKinds
    THEN [exc |-> TRUE, value |-> None]
    ELSE IF Fresh(f, clock)
    THEN [exc |-> FALSE, value |-> Some(f.data)]
    ELSE [exc |-> FALSE, value |-> None]

\* load_generic_cache without its except clause.
LoadUnhandled(f, clock) ==
    IF f.kind = "absent"
    THEN [raised |-> FALSE, value |-> None]
    ELSE LET b == LoadBlock(f, clock) IN
         IF b.exc THEN [raised |-> TRUE, value |-> None]
         ELSE [raised |-> FALSE, value |-> b.value]

\* None is a miss; Some(data) is the stored payload.
load_generic_cache(f, clock) ==
    IF f.kind = "absent"
    THEN [raised |-> FALSE, value |-> None]
    ELSE LET b == LoadBlock(f, clock) IN
         IF b.exc THEN [raised |-> FALSE, value |-> None]
         ELSE [raised |-> FALSE, value |-> b.value]

----------------------------------------------------------------------------
(* get_market_data *)

\* The longest identifier list a caller passes.
MaxTickers == 2

TickerLists == UNION {[1..n -> RawTickers] : n \in 0..MaxTickers}

\* The call sites of get_market_data: analyze_stocks and the holdings dialog.
RunIds == {"screening", "dialog"}

Range(s) == {s[i] : i \in DOMAIN s}

\* ValidQuote without the sentinel rule.
ValidQuoteAnyPrice(data) == Truthy(data.current_price)

\* ValidQuote without the test that a price is present.
ValidQuoteNoPriceTest(data) == data.current_price # Some(SentinelPrice)

\* data and data.get('current_price') and data.get('current_price') != 100.0
ValidQuote(data) ==
    Truthy(data.current_price) /\ data.current_price # Some(SentinelPrice)

\* KeepValid without the filter: every cached entry is carried over.
KeepAll(market_data) ==
    IF market_data = None THEN EmptyDict ELSE market_data[1]

\* The cached entries get_market_data keeps (lines 230-237).
KeepValid(market_data) ==
    IF market_data = None \/ market_data = Some(EmptyDict)
    THEN EmptyDict
    ELSE LET d == market_data[1] IN
         [t \in {k \in DOMAIN d : ValidQuote(d[k])} |-> d[t]]

\* NeedsFetch with the cache ignored: every requested identifier is fetched.
NeedsFetchAll(t, new_market_data) == t = t

\* Whether a requested identifier needs a fetch (lines 240-242): it has no
\* kept entry, or its entry fails the test of line 236 again.
NeedsFetch(t, new_market_data) ==
    \/ t \notin DOMAIN new_market_data
    \/ ~ValidQuote(new_market_data[t])

MissingTickers(tickers, new_market_data) ==
    SelectSeq(tickers, LAMBDA t : NeedsFetch(t, new_market_data))

\* The provider outcomes the batch runs draw from: yfinance raises or answers
\* with or without a price and a low, Finnhub is unconfigured or answers in
\* full, Alpha Vantage is unconfigured.
BatchEnvs ==
    {e \in Envs :
        /\ e.yf.kind # "malformed"
        /\ e.yf.kind = "ok" => e.yf.currentPrice # Some(0) /\ e.yf.fiftyTwoWeekHigh = TrueHigh
        /\ e.finnhub_quote = [kind |-> "ok", c |-> TruePrice]
        /\ e.finnhub_metric = [kind |-> "ok", low |-> TrueLow, high |-> TrueHigh]
        /\ e.alpha_vantage_key = "missing"
        /\ e.alpha_vantage.kind = "exception"}

\* What a worker's future may hold for an identifier: get_ticker_data over
\* every provider outcome.
FutureOutcomes ==
    [t \in Tickers |->
        {[raised |-> get_ticker_data(t, e).raised, data |-> get_ticker_data(t, e).data] :
            e \in BatchEnvs}]

\* future.result(), with the handler of lines 258-264.
FutureResult(o) == IF o.raised THEN NoQuote ELSE o.data

Idle ==
    [pc |-> "idle", input |-> <<>>, tickers |-> <<>>, market_data |-> None, new_market_data |-> EmptyDict,
     missing_tickers |-> <<>>, pending |-> {}, ret |-> None, saved |-> None]

\* Lines 225-250 and 265-267, for a non-empty normalized list: the cache read,
\* the split into cached and missing, the early return when nothing is
\* missing, and the submission of one task per missing identifier.  An
\* exception of load_generic_cache would leave get_market_data unhandled.
Start(f, clock, tickers) ==
    LET loaded == load_generic_cache(f, clock)
        market_data == loaded.value
        new_market_data == KeepValid(market_data)
        missing_tickers == MissingTickers(tickers, new_market_data)
    IN  IF loaded.raised
        THEN [Idle EXCEPT !.pc = "raised", !.tickers = tickers]
        ELSE IF missing_tickers = <<>>
        THEN [Idle EXCEPT !.pc = "returned", !.tickers = tickers,
                          !.market_data = market_data,
                          !.new_market_data = new_market_data,
                          !.ret = Some(new_market_data)]
        ELSE [Idle EXCEPT !.pc = "fetching", !.tickers = tickers,
                          !.market_data = market_data,
                          !.new_market_data = new_market_data,
                          !.missing_tickers = missing_tickers,
                          !.pending = DOMAIN missing_tickers]

\* get_market_data(input) up to the submission of the tasks: line 215 returns
\* {} for an empty list, line 223 normalizes.  The field input remembers the
\* list as the caller passed it, which line 223 overwrites.
Call(r, input) ==
    /\ run[r].pc = "idle"
    /\ run' = [run EXCEPT ![r] =
            IF input = <<>>
            THEN [Idle EXCEPT !.pc = "returned", !.ret = Some(EmptyDict)]
            ELSE [Start(file, Time(now), [i \in DOMAIN input |-> Normalize(input[i])])
                    EXCEPT !.input = input]]
    /\ UNCHANGED <<tcall, tret, now, file, others>>

\* Lines 253-264: one future completes and its result goes into its slot.
Complete(r, i) ==
    /\ run[r].pc = "fetching"
    /\ i \in run[r].pending
    /\ \E o \in FutureOutcomes[run[r].missing_tickers[i]] :
        run' = [run EXCEPT ![r].pending = @ \ {i},
                           ![r].new_market_data =
                                (run[r].missing_tickers[i] :> FutureResult(o)) @@ @]
    /\ UNCHANGED <<tcall, tret, now, file, others>>

\* WriteBack without the join of the pool.
WriteBackNoBarrier(r) ==
    /\ run[r].pc = "fetching"
    /\ \E outcome \in SaveOutcomes :
        LET s == save_generic_cache(file, run[r].new_market_data, Time(now),
                                    DefaultTtl, outcome)
        IN  /\ file' = s.file
            /\ run' = IF s.raised
                      THEN [run EXCEPT ![r].pc = "raised"]
                      ELSE [run EXCEPT ![r].pc = "returned",
                                       ![r].ret = Some(run[r].new_market_data),
                                       ![r].saved = Some(s.returned)]
    /\ UNCHANGED <<tcall, tret, now, others>>

\* Lines 269-273: after the pool has joined, the write-back and the return.
\* The call of line 270 is in no try block: an exception of
\* save_generic_cache would leave get_market_data.
WriteBack(r) ==
    /\ run[r].pc = "fetching"
    /\ run[r].pending = {}
    /\ \E outcome \in SaveOutcomes :
        LET s == save_generic_cache(file, run[r].new_market_data, Time(now),
                                    DefaultTtl, outcome)
        IN  /\ file' = s.file
            /\ run' = IF s.raised
                      THEN [run EXCEPT ![r].pc = "raised"]
                      ELSE [run EXCEPT ![r].pc = "returned",
                                       ![r].ret = Some(run[r].new_market_data),
                                       ![r].saved = Some(s.returned)]
    /\ UNCHANGED <<tcall, tret, now, others>>

\* The caller takes the map; the run's locals go away.
Finish(r) ==
    /\ run[r].pc \in {"returned", "raised"}
    /\ run' = [run EXCEPT ![r] = Idle]
    /\ UNCHANGED <<tcall, tret, now, file, others>>

\* Time passes.
Tick ==
    /\ now < MaxNow
    /\ now' = now + 1
    /\ UNCHANGED <<tcall, tret, file, run, others>>

----------------------------------------------------------------------------
(* analyze_stocks.process_ticker: the screening gates and the classification *)

\* Ratios (returnOnEquity, grossMargins, profitMargins, revenueGrowth,
\* earningsGrowth, pegRatio) are held in hundredths: the source's 0.15 is 15.
\* debtToEquity is in percent and trailingPE in units, as in the source.  A
\* value of the wrong type (a string where a number is expected) is BadType;
\* a key the record does not have is Absent until MkInfo drops it.
BadType == <<0, 0>>

Absent == <<0, 0, 0>>

IsNumber(x) == Len(x) = 1

\* info.get(key, default)
Get(info, key, default) == IF key \in DOMAIN info THEN info[key] ELSE default

\* The dict with the keys of fields that are not Absent.
MkInfo(fields) == [k \in {j \in DOMAIN fields : fields[j] # Absent} |-> fields[k]]

\* roe < 0.15
RoeMin == 15

\* info.get('debtToEquity', 1000)
DeDefault == 1000

\* de_ratio > 150
DeMax == 150

\* gross_margins < 0.2
GrossMarginMin == 20

\* pe > 35
PeMax == 35

\* net_margin < 0.1
NetMarginMin == 10

\* "x is None or <x is a rejected value>": reject on None, raise TypeError
\* on a value that is not a number, else decide.
Gate(x, Rejected) ==
    IF x = None THEN "reject"
    ELSE IF ~IsNumber(x) THEN "raise"
    ELSE IF x[1] \in Rejected THEN "reject"
    ELSE "pass"

\* Lines 723-731: the free cash flow the fifth gate tests; exc when the sum
\* raises.
FreeCashFlow(info) ==
    LET fcf == Get(info, "freeCashflow", None)
        ocf == Get(info, "operatingCashflow", None)
        capex == Get(info, "capitalExpenditures", None)
    IN  IF fcf # None THEN [exc |-> FALSE, val |-> fcf]
        ELSE IF ocf # None /\ capex # None
        THEN IF IsNumber(ocf) /\ IsNumber(capex)
             THEN [exc |-> FALSE, val |-> Some(ocf[1] + capex[1])]
             ELSE [exc |-> TRUE, val |-> None]
        ELSE [exc |-> FALSE, val |-> Some(0)]

GateNames == <<"returnOnEquity", "debtToEquity", "grossMargins", "trailingPE",
               "freeCashflow", "profitMargins">>

\* FcfGate on the provider's figure alone, the derived one ignored.
FcfGateProvidedOnly(info) ==
    LET fcf == Get(info, "freeCashflow", None) IN
    Gate(IF fcf # None THEN fcf ELSE Some(0), {v \in Int : v < 0})

\* Lines 723-734.
FcfGate(info) ==
    LET f == FreeCashFlow(info) IN
    IF f.exc THEN "raise" ELSE Gate(f.val, {v \in Int : v < 0})

\* Lines 700-739: what each gate would say, in the order of the source.
Gates(info) ==
    <<Gate(Get(info, "returnOnEquity", Some(0)), {v \in Int : v < RoeMin}),
      Gate(Get(info, "debtToEquity", Some(DeDefault)), {v \in Int : v > DeMax}),
      Gate(Get(info, "grossMargins", Some(0)), {v \in Int : v < GrossMarginMin}),
      Gate(Get(info, "trailingPE", Some(0)), {v \in Int : v <= 0 \/ v > PeMax}),
      FcfGate(info),
      Gate(Get(info, "profitMargins", Some(0)), {v \in Int : v < NetMarginMin})>>

\* The first gate that does not pass; 7 when all six pass.
FirstStop(g) ==
    IF \E i \in DOMAIN g : g[i] # "pass"
    THEN CHOOSE i \in DOMAIN g : g[i] # "pass" /\ \A j \in 1..(i - 1) : g[j] = "pass"
    ELSE Len(g) + 1

\* CYCLICAL_SECTORS
CYCLICAL_SECTORS ==
    {"Energy", "Materials", "Industrials", "Consumer Discretionary", "Financials",
     "Real Estate", "Basic Materials", "Financial Services", "Consumer Cyclical"}

\* A PEG as the fraction n / d, d > 0.
Frac(n, d) == [n |-> n, d |-> d]

\* Peg with the derived value preferred to the provider's.
PegDerivedFirst(info) ==
    LET pe_val == Get(info, "trailingPE", None)
        growth_val == Get(info, "earningsGrowth", None)
        peg == Get(info, "pegRatio", None)
    IN  IF pe_val # None /\ growth_val # None /\ growth_val[1] > 0
        THEN Some(Frac(pe_val[1], growth_val[1]))
        ELSE IF peg # None THEN Some(Frac(peg[1], 100)) ELSE None

\* Lines 752-759: pegRatio, else trailingPE / (earningsGrowth * 100) when
\* earningsGrowth > 0, else None.
Peg(info) ==
    LET peg == Get(info, "pegRatio", None) IN
    IF peg # None THEN Some(Frac(peg[1], 100))
    ELSE
        LET pe_val == Get(info, "trailingPE", None)
            growth_val == Get(info, "earningsGrowth", None)
        IN  IF pe_val # None /\ growth_val # None /\ growth_val[1] > 0
            THEN Some(Frac(pe_val[1], growth_val[1]))
            ELSE None

\* Lines 751, 763-771: the valuation status; exc when rev_growth > 0 raises
\* TypeError on a rev_growth of None.
ValuationStatus(rev_growth, peg) ==
    IF rev_growth # None /\ rev_growth[1] < 0
    THEN [exc |-> FALSE, val |-> "Declining"]
    ELSE IF peg # None
    THEN IF rev_growth = None
         THEN [exc |-> TRUE, val |-> "Unknown"]
         ELSE LET f == peg[1] IN
              IF f.n < f.d /\ rev_growth[1] > 0
              THEN [exc |-> FALSE, val |-> "Undervalued"]
              ELSE IF f.d <= f.n /\ f.n <= 2 * f.d /\ rev_growth[1] > 0
              THEN [exc |-> FALSE, val |-> "Fair"]
              ELSE IF f.n > 2 * f.d /\ rev_growth[1] > 0
              THEN [exc |-> FALSE, val |-> "Overvalued"]
              ELSE [exc |-> FALSE, val |-> "Unknown"]
    ELSE [exc |-> FALSE, val |-> "Unknown"]

\* cached_stock_data.get(field, info.get(key)), lines 776-780.
QuoteField(market_data, ticker, field, info, key) ==
    LET lookup_ticker == Normalize(ticker) IN
    IF lookup_ticker \in DOMAIN market_data
    THEN market_data[lookup_ticker][field]
    ELSE Get(info, key, None)

\* Screened without the except clause: what was caught leaves the function.
ScreenedUncaught(row, evaluated, caught, peg, status) ==
    [row |-> row, evaluated |-> evaluated, caught |-> caught, raised |-> caught,
     peg |-> peg, status |-> status]

\* What process_ticker hands back: the row or None, with the gates it
\* evaluated, whether its except clause caught something, and the PEG and
\* status it had computed by then.
Screened(row, evaluated, caught, peg, status) ==
    [row |-> row, evaluated |-> evaluated, caught |-> caught, raised |-> FALSE,
     peg |-> peg, status |-> status]

\* Lines 690-840.  yf is the outcome of yf.Ticker(ticker).info.
process_ticker(ticker, yf, market_data) ==
    IF yf.kind # "ok" THEN Screened(None, <<>>, TRUE, None, None)
    ELSE IF yf.info = EmptyDict THEN Screened(None, <<>>, FALSE, None, None)
    ELSE
        LET info == yf.info
            g == Gates(info)
            stop == FirstStop(g)
            evaluated == SubSeq(GateNames, 1, IF stop > Len(g) THEN Len(g) ELSE stop)
        IN  IF stop <= Len(g)
            THEN Screened(None, evaluated, g[stop] = "raise", None, None)
            ELSE
                LET rev_growth == Get(info, "revenueGrowth", Some(0))
                    sector == Get(info, "sector", Some("Unknown"))
                    peg == Peg(info)
                    status == ValuationStatus(rev_growth, peg)
                    marketCap == Get(info, "marketCap", Some(0))
                IN  IF status.exc
                    THEN Screened(None, evaluated, TRUE, peg, None)
                    ELSE IF ~IsNumber(marketCap)
                    THEN Screened(None, evaluated, TRUE, peg, Some(status.val))
                    ELSE Screened(
                            Some([ticker |-> ticker,
                                  valuation_status |-> status.val,
                                  cyclical |-> sector # None /\ sector[1] \in CYCLICAL_SECTORS,
                                  pegRatio |-> IF peg # None THEN peg[1] ELSE Frac(0, 1),
                                  revenueGrowth |-> rev_growth,
                                  current_price |-> QuoteField(market_data, ticker,
                                        "current_price", info, "currentPrice"),
                                  year_high |-> QuoteField(market_data, ticker,
                                        "year_high", info, "fiftyTwoWeekHigh"),
                                  year_low |-> QuoteField(market_data, ticker,
                                        "year_low", info, "fiftyTwoWeekLow")]),
                            evaluated, FALSE, peg, Some(status.val))

----------------------------------------------------------------------------
(* SpecScreen: one call of process_ticker for every input *)

\* A record that passes the six gates.
BaseFields ==
    [returnOnEquity |-> Some(20), debtToEquity |-> Some(50),
     grossMargins |-> Some(30), trailingPE |-> Some(20),
     freeCashflow |-> Some(10), operatingCashflow |-> Absent,
     capitalExpenditures |-> Absent, profitMargins |-> Some(15),
     revenueGrowth |-> Some(5), pegRatio |-> Some(80), earningsGrowth |-> Absent,
     sector |-> Some("Technology"), marketCap |-> Some(500),
     currentPrice |-> Some(Price(300)), fiftyTwoWeekHigh |-> Absent,
     fiftyTwoWeekLow |-> Some(Price(200))]

\* Records around each gate's threshold, with the key absent or null.
GateInfos ==
    {MkInfo([BaseFields EXCEPT !.returnOnEquity = roe, !.debtToEquity = de,
                               !.grossMargins = gm, !.trailingPE = pe,
                               !.freeCashflow = cash[1],
                               !.operatingCashflow = cash[2],
                               !.capitalExpenditures = cash[3],
                               !.profitMargins = nm]) :
        roe \in {Absent, None, Some(RoeMin - 1), Some(RoeMin)},
        de \in {Absent, None, Some(DeMax), Some(DeMax + 1)},
        gm \in {Absent, None, Some(GrossMarginMin - 1), Some(GrossMarginMin)},
        pe \in {Absent, None, Some(0), Some(PeMax), Some(PeMax + 1)},
        cash \in ({None, Some(0 - 1), Some(0)} \X {Absent} \X {Absent})
                    \cup ({Absent, None} \X {Absent, None, Some(5)}
                            \X {Absent, Some(0 - 3), Some(0 - 7)}),
        nm \in {Absent, None, Some(NetMarginMin - 1), Some(NetMarginMin)}}

\* Records that pass the gates, with every case of the classification.
ClassInfos ==
    {MkInfo([BaseFields EXCEPT !.revenueGrowth = rg, !.pegRatio = peg,
                               !.earningsGrowth = eg, !.sector = sector,
                               !.marketCap = cap, !.currentPrice = cp]) :
        rg \in {Absent, None, Some(0 - 2), Some(0), Some(5)},
        peg \in {Absent, None, Some(80), Some(100), Some(200), Some(250)},
        eg \in {Absent, None, Some(0 - 5), Some(0), Some(25), Some(10), Some(5)},
        sector \in {Absent, Some("Technology"), Some("Energy")},
        cap \in {Absent, None, Some(500)},
        cp \in {Absent, Some(Price(300))}}

\* Records with a string where a gate expects a number.
IllTypedInfos ==
    {MkInfo([BaseFields EXCEPT !.returnOnEquity = roe, !.debtToEquity = de,
                               !.operatingCashflow = ocf,
                               !.freeCashflow = Absent,
                               !.capitalExpenditures = Some(0 - 3)]) :
        roe \in {Some(20), Some(10), BadType},
        de \in {Some(50), Some(200), BadType},
        ocf \in {Some(5), BadType}}

YfInfoOutcomes ==
    {[kind |-> "exception", info |-> EmptyDict],
     [kind |-> "ok", info |-> EmptyDict]}
        \cup {[kind |-> "ok", info |-> i] :
                i \in GateInfos \cup ClassInfos \cup IllTypedInfos}

\* The identifier-to-record maps get_market_data can hand to process_ticker.
MarketDatas ==
    {EmptyDict,
     [t \in {Normalize(BRK_DOT_B)} |-> NoQuote],
     [t \in {Normalize(BRK_DOT_B)} |-> Quote(Some(Price(310)), None, Some(Price(400)))]}

NoScreen ==
    [pc |-> "idle", ticker |-> <<>>, yf |-> [kind |-> "exception", info |-> EmptyDict],
     market_data |-> EmptyDict, out |-> Screened(None, <<>>, FALSE, None, None)]

InitScreen ==
    screen \in {[NoScreen EXCEPT !.pc = "called", !.ticker = BRK_DOT_B, !.yf = yf,
                                 !.market_data = md] :
                    yf \in YfInfoOutcomes, md \in MarketDatas}

ScreenReturn ==
    /\ screen.pc = "called"
    /\ screen' = [screen EXCEPT
                    !.pc = "returned",
                    !.out = process_ticker(screen.ticker, screen.yf, screen.market_data)]

----------------------------------------------------------------------------
(* The result cache: load_cache and the start of main *)

\* The columns of the stored table, by their meaning: 中文名称, 中文行业,
\* 52周最高, 52周最低, 当前价格 (load_cache) and PEG, 净利率(%),
\* 自由现金流(亿), 估值状态, 52周范围, PE/ROE, 负债/毛利, 公司/行业,
\* 当前价格 (main).
required_columns == {"cn_name", "cn_industry", "high_52", "low_52", "current_price"}

required_cols ==
    {"PEG", "net_margin", "fcf", "valuation_status", "range_52", "PE_ROE",
     "debt_margin", "company_industry", "current_price"}

\* all(col in df.columns for col in cols), with any in place of all.
HasAny(df, cols) == cols \cap df.columns # {}

\* all(col in df.columns for col in cols)
HasAll(df, cols) == cols \subseteq df.columns

\* A table read from stock_cache.csv.
Table(columns, rows) == [columns |-> columns, rows |-> rows]

\* stock_cache.csv: absent, unreadable by pd.read_csv, or a table.
CsvFiles ==
    {[kind |-> "absent", df |-> Table({}, 0)], [kind |-> "unreadable", df |-> Table({}, 0)]}
        \cup {[kind |-> "table", df |-> Table(cols, 1)] :
                cols \in SUBSET (required_columns \cup required_cols)}

\* cache_metadata.json: absent, not JSON, or a dict with or without last_updated.
MetaFiles ==
    {[kind |-> k, last_updated |-> None] : k \in {"absent", "invalid_json", "dict"}}
        \cup {[kind |-> "dict", last_updated |-> Some("2024-01-01 09:30:00")]}

\* Lines 300-314.
load_cache(csv, meta) ==
    LET miss == [df |-> None, last_updated |-> None] IN
    IF csv.kind # "absent" /\ meta.kind # "absent"
    THEN IF csv.kind = "unreadable" THEN miss
         ELSE IF ~HasAll(csv.df, required_columns) THEN miss
         ELSE IF meta.kind = "invalid_json" THEN miss
         ELSE [df |-> Some(csv.df),
               last_updated |-> IF meta.last_updated # None THEN meta.last_updated
                                ELSE Some("unknown")]
    ELSE miss

NoStartup ==
    [pc |-> "idle", csv |-> [kind |-> "absent", df |-> Table({}, 0)],
     meta |-> [kind |-> "absent", last_updated |-> None],
     data |-> None, last_updated |-> None]

InitStartup ==
    startup \in {[NoStartup EXCEPT !.pc = "fresh", !.csv = csv, !.meta = meta] :
                    csv \in CsvFiles, meta \in MetaFiles}

\* Lines 887-910: the first run of main in a session.
MainStartup ==
    /\ startup.pc = "fresh"
    /\ LET loaded == load_cache(startup.csv, startup.meta)
           keep == loaded.df # None /\ HasAll(loaded.df[1], required_cols)
       IN  startup' = [startup EXCEPT
                         !.pc = "loaded",
                         !.data = IF keep THEN loaded.df ELSE None,
                         !.last_updated = IF keep THEN loaded.last_updated ELSE None]

----------------------------------------------------------------------------
(* analyze_stocks: the pool of process_ticker tasks *)

MaxBatch == 3

\* The lists analyze_stocks is called with: the first identifiers of a fixed
\* universe.
Universe == <<V_, KO_, BRK_DOT_B, BRK_DASH_B>>

\* What yf.Ticker(ticker).info can be for one identifier: a provider error,
\* no data, a record that passes, one that a gate rejects, one with a string
\* for returnOnEquity, and two on which the code after the gates raises.
ScreenCases ==
    {[kind |-> "exception", info |-> EmptyDict],
     [kind |-> "ok", info |-> EmptyDict],
     [kind |-> "ok", info |-> MkInfo(BaseFields)],
     [kind |-> "ok", info |-> MkInfo([BaseFields EXCEPT !.returnOnEquity = Some(10)])],
     [kind |-> "ok", info |-> MkInfo([BaseFields EXCEPT !.returnOnEquity = BadType])],
     [kind |-> "ok", info |-> MkInfo([BaseFields EXCEPT !.revenueGrowth = None])],
     [kind |-> "ok", info |-> MkInfo([BaseFields EXCEPT !.marketCap = None])]}

NoAnalysis ==
    [pc |-> "idle", tickers |-> <<>>, yf |-> <<>>, market_data |-> EmptyDict,
     pending |-> {}, selected_stocks |-> <<>>]

InitAnalyze ==
    analysis \in {[NoAnalysis EXCEPT !.pc = "called",
                                     !.tickers = SubSeq(Universe, 1, n),
                                     !.yf = yf, !.market_data = md] :
                    n \in {MaxBatch}, yf \in [1..MaxBatch -> ScreenCases],
                    md \in MarketDatas}

\* Lines 688, 844-845: the quotes are fetched, one task is submitted for
\* each identifier.
AnalyzeSubmit ==
    /\ analysis.pc = "called"
    /\ analysis' = [analysis EXCEPT !.pc = "pool",
                                    !.pending = DOMAIN analysis.tickers]

\* Lines 847-850: one task is done, future.result() is taken outside any
\* try block, a row that is not None is appended.
AnalyzeCompleted(i) ==
    /\ analysis.pc = "pool"
    /\ i \in analysis.pending
    /\ LET result == process_ticker(analysis.tickers[i], analysis.yf[i],
                                    analysis.market_data)
       IN  analysis' =
              IF result.raised
              THEN [analysis EXCEPT !.pc = "raised"]
              ELSE [analysis EXCEPT
                      !.pending = @ \ {i},
                      !.selected_stocks =
                          IF result.row # None THEN Append(@, result.row[1]) ELSE @]

\* Lines 858-881: the pool is joined; the translation changes names only and
\* its failures are swallowed by translate_text.
AnalyzeReturn ==
    /\ analysis.pc = "pool"
    /\ analysis.pending = {}
    /\ analysis' = [analysis EXCEPT !.pc = "returned"]

----------------------------------------------------------------------------
(* SpecAge: the runs of get_market_data with the fetch time of every quote *)

\* born.file[t] is the tick of the write-back that first stored the quote
\* market_data.json holds for t, which is no earlier than its fetch from a
\* provider; born.run[t] is the same for the quote the run holds for t in
\* new_market_data, the tick of its fetch until it is stored.
NoBorn == [file |-> <<>>, run |-> <<>>]

\* The kept quotes are as old as they were in the file.
BornCall(r) ==
    born' = [born EXCEPT
                !.run = [t \in DOMAIN run'[r].new_market_data |-> born.file[t]]]

\* The quote of the completed task comes from a provider now.
BornComplete(r, i) ==
    born' = [born EXCEPT !.run = (run[r].missing_tickers[i] :> now) @@ @]

\* When the write succeeded the file holds what the run held: the quotes
\* fetched in this run are stored now, the others were stored before.
BornWriteBack(r) ==
    born' = [born EXCEPT
                !.file = IF run'[r].saved = Some(TRUE)
                         THEN [t \in DOMAIN born.run |->
                                 IF t \in Range(run[r].missing_tickers) THEN now
                                 ELSE born.run[t]]
                         ELSE IF file' = file THEN @
                         ELSE <<>>]

BornFinish == born' = [born EXCEPT !.run = <<>>]

----------------------------------------------------------------------------
(* get_stock_details_cached: the retry loop and the backup request *)

max_retries == 3

\* What one read of yf.Ticker(ticker).info gives: an exception, an empty
\* dict, a dict without currentPrice, or a dict with it.
AttemptOutcomes == {"exception", "empty", "no_price", "ok"}

\* What requests.get gives: status 200, another status, or an exception.
BackupOutcomes == {"200", "other", "exception"}

\* One entry of the trace: the first delay, an attempt with its number, a
\* backoff sleep with its upper bound in seconds, the backup request.
Event(ev, n) == [ev |-> ev, n |-> n]

NoDetails ==
    [pc |-> "idle", yf |-> <<>>, backup |-> "exception", i |-> 0, log |-> <<>>,
     ret |-> "none"]

InitDetails ==
    details \in {[NoDetails EXCEPT !.pc = "called", !.yf = yf, !.backup = b] :
                    yf \in [1..max_retries -> AttemptOutcomes], b \in BackupOutcomes}

\* Line 1163: time.sleep(random.uniform(0.1, 0.5)).
DetailsDelay ==
    /\ details.pc = "called"
    /\ details' = [details EXCEPT !.pc = "loop",
                                  !.log = Append(@, Event("delay", 0))]

\* Lines 1166-1177: pass i of the loop, i counted from 0 as in the source.
DetailsAttempt ==
    /\ details.pc = "loop"
    /\ details.i < max_retries
    /\ LET i == details.i
           o == details.yf[i + 1]
           tried == Append(details.log, Event("attempt", i + 1))
       IN  details' =
              IF o = "ok"
              THEN [details EXCEPT !.pc = "returned", !.log = tried, !.ret = "info"]
              ELSE [details EXCEPT
                      !.i = i + 1,
                      !.log = IF o = "exception" /\ i < max_retries - 1
                              THEN Append(tried, Event("sleep", 3 * (i + 1)))
                              ELSE tried]

\* Lines 1179-1191: the backup request, after the loop ran out.
DetailsBackup ==
    /\ details.pc = "loop"
    /\ details.i = max_retries
    /\ details' = [details EXCEPT
                     !.pc = "returned",
                     !.log = Append(@, Event("backup", 0)),
                     !.ret = IF details.backup = "200" THEN "backup_mode" ELSE "None"]

----------------------------------------------------------------------------
(* save_cache and load_cache on the two files of the result cache *)

MaxRuns == 3

\* The table and the timestamp a screening run saves carry the number of the
\* run; the table has every column analyze_stocks produces.
RunTable(n) == Table(required_columns \cup required_cols, n)

NoStore ==
    [pc |-> "idle", n |-> 0,
     csv |-> [kind |-> "absent", df |-> Table({}, 0)],
     meta |-> [kind |-> "absent", last_updated |-> None],
     ret |-> None, loaded |-> [df |-> None, last_updated |-> None]]

\* A screening run begins.
InitStore == store = [NoStore EXCEPT !.pc = "ready"]

\* Line 292: df.to_csv(CACHE_FILE) of run n + 1 succeeds, or raises leaving
\* the file as it was or unreadable.
SaveCsv ==
    /\ store.pc = "ready"
    /\ store.n < MaxRuns
    /\ \E outcome \in {"ok", "raises_untouched", "raises_partial"} :
        store' = [store EXCEPT
                    !.n = @ + 1,
                    !.pc = IF outcome = "ok" THEN "csv_written" ELSE "ready",
                    !.csv = CASE outcome = "ok" ->
                                    [kind |-> "table", df |-> RunTable(store.n + 1)]
                              [] outcome = "raises_untouched" -> @
                              [] outcome = "raises_partial" ->
                                    [kind |-> "unreadable", df |-> Table({}, 0)],
                    !.ret = IF outcome = "ok" THEN None ELSE Some(FALSE)]

\* Lines 293-295: the metadata file is written, or open or json.dump raises.
SaveMeta ==
    /\ store.pc = "csv_written"
    /\ \E outcome \in {"ok", "open_raises", "dump_raises"} :
        store' = [store EXCEPT
                    !.pc = "ready",
                    !.meta = CASE outcome = "ok" ->
                                    [kind |-> "dict", last_updated |-> Some(store.n)]
                               [] outcome = "open_raises" -> @
                               [] outcome = "dump_raises" ->
                                    [kind |-> "invalid_json", last_updated |-> None],
                    !.ret = Some(outcome = "ok")]

\* The process ends between the two writes.
SaveInterrupted ==
    /\ store.pc = "csv_written"
    /\ store' = [store EXCEPT !.pc = "ready", !.ret = None]

\* load_cache in this or another session, at any point.
StoreLoad ==
    /\ store.pc \in {"ready", "csv_written"}
    /\ store' = [store EXCEPT !.loaded = load_cache(store.csv, store.meta)]

----------------------------------------------------------------------------
(* The specifications *)

Init ==
    /\ tcall = NoCall
    /\ tret = NoReturn
    /\ now = 0
    /\ file \in {BrokenFile(k) : k \in BrokenKinds \cup {"absent"}}
    /\ run = [r \in RunIds |-> Idle]
    /\ screen = NoScreen
    /\ startup = NoStartup
    /\ analysis = NoAnalysis
    /\ born = NoBorn
    /\ details = NoDetails
    /\ store = NoStore

Next ==
    \/ \E input \in TickerLists : Call("screening", input) /\ UNCHANGED born
    \/ \E i \in 1..MaxTickers : Complete("screening", i) /\ UNCHANGED born
    \/ WriteBack("screening") /\ UNCHANGED born
    \/ Finish("screening") /\ UNCHANGED born
    \/ Tick /\ UNCHANGED born

Spec == Init /\ [][Next]_vars

InitT ==
    /\ InitTicker
    /\ now = 0
    /\ file = BrokenFile("absent")
    /\ run = [r \in RunIds |-> Idle]
    /\ screen = NoScreen
    /\ startup = NoStartup
    /\ analysis = NoAnalysis
    /\ born = NoBorn
    /\ details = NoDetails
    /\ store = NoStore

NextT == TickerReturn /\ UNCHANGED <<now, file, run, others, born>>

SpecTicker == InitT /\ [][NextT]_vars

InitS ==
    /\ InitScreen
    /\ tcall = NoCall
    /\ tret = NoReturn
    /\ now = 0
    /\ file = BrokenFile("absent")
    /\ run = [r \in RunIds |-> Idle]
    /\ startup = NoStartup
    /\ analysis = NoAnalysis
    /\ born = NoBorn
    /\ details = NoDetails
    /\ store = NoStore

NextS ==
    ScreenReturn
        /\ UNCHANGED <<tcall, tret, now, file, run, startup, analysis, born, details, store>>

SpecScreen == InitS /\ [][NextS]_vars

InitU ==
    /\ InitStartup
    /\ tcall = NoCall
    /\ tret = NoReturn
    /\ now = 0
    /\ file = BrokenFile("absent")
    /\ run = [r \in RunIds |-> Idle]
    /\ screen = NoScreen
    /\ analysis = NoAnalysis
    /\ born = NoBorn
    /\ details = NoDetails
    /\ store = NoStore

NextU ==
    MainStartup
        /\ UNCHANGED <<tcall, tret, now, file, run, screen, analysis, born, details, store>>

SpecStartup == InitU /\ [][NextU]_vars

InitA ==
    /\ InitAnalyze
    /\ tcall = NoCall
    /\ tret = NoReturn
    /\ now = 0
    /\ file = BrokenFile("absent")
    /\ run = [r \in RunIds |-> Idle]
    /\ screen = NoScreen
    /\ startup = NoStartup
    /\ born = NoBorn
    /\ details = NoDetails
    /\ store = NoStore

NextA ==
    /\ \/ AnalyzeSubmit
       \/ \E i \in 1..MaxBatch : AnalyzeCompleted(i)
       \/ AnalyzeReturn
    /\ UNCHANGED <<tcall, tret, now, file, run, screen, startup, born, details, store>>

SpecAnalyze == InitA /\ [][NextA]_vars

NextAge ==
    \/ \E input \in TickerLists : Call("screening", input) /\ BornCall("screening")
    \/ \E i \in 1..MaxTickers : Complete("screening", i) /\ BornComplete("screening", i)
    \/ WriteBack("screening") /\ BornWriteBack("screening")
    \/ Finish("screening") /\ BornFinish
    \/ Tick /\ UNCHANGED born

SpecAge == Init /\ [][NextAge]_vars

\* Two call sites at work at once on different identifiers: the screening
\* run asks for V, the holdings dialog for BRK.B in either spelling.
Portfolio == [screening |-> {V_}, dialog |-> {BRK_DOT_B, BRK_DASH_B}]

PortfolioLists(r) == {input \in TickerLists : input # <<>> /\ Range(input) \subseteq Portfolio[r]}

NextOverlap ==
    \/ \E r \in RunIds : \E input \in PortfolioLists(r) : Call(r, input) /\ UNCHANGED born
    \/ \E r \in RunIds : \E i \in 1..MaxTickers : Complete(r, i) /\ UNCHANGED born
    \/ \E r \in RunIds : WriteBack(r) /\ UNCHANGED born
    \/ \E r \in RunIds : Finish(r) /\ UNCHANGED born

SpecOverlap == Init /\ [][NextOverlap]_vars

Quiet ==
    /\ tcall = NoCall
    /\ tret = NoReturn
    /\ now = 0
    /\ file = BrokenFile("absent")
    /\ run = [r \in RunIds |-> Idle]
    /\ screen = NoScreen
    /\ startup = NoStartup
    /\ analysis = NoAnalysis
    /\ born = NoBorn

InitD == InitDetails /\ Quiet /\ store = NoStore

NextD ==
    /\ \/ DetailsDelay
       \/ DetailsAttempt
       \/ DetailsBackup
    /\ UNCHANGED <<tcall, tret, now, file, run, screen, startup, analysis, born, store>>

SpecDetails == InitD /\ [][NextD]_vars

InitR == InitStore /\ Quiet /\ details = NoDetails

NextR ==
    /\ \/ SaveCsv
       \/ SaveMeta
       \/ SaveInterrupted
       \/ StoreLoad
    /\ UNCHANGED <<tcall, tret, now, file, run, screen, startup, analysis, born, details>>

SpecStore == InitR /\ [][NextR]_vars

----------------------------------------------------------------------------
(* Claims about the cache file and get_market_data (Spec) *)

\* The step in which run r makes its call with a non-empty list.
Calls(r) == run[r].pc = "idle" /\ run'[r].pc # "idle" /\ run'[r].tickers # <<>>

InFlight(r) == run[r].pc \in {"fetching", "returned"} /\ run[r].tickers # <<>>

\* C1: a record saved at storedAt with ttl is handed to a caller loading at
\* time now exactly when now - storedAt < ttl; from now - storedAt = ttl on the
\* load is a miss (None).
C1_TtlInvariant ==
    [][\A r \in RunIds :
        Calls(r) /\ file.kind = "record" =>
            /\ (Time(now) - file.timestamp < file.ttl) <=>
                    (run'[r].market_data = Some(file.data))
            /\ (Time(now) - file.timestamp >= file.ttl) <=>
                    (run'[r].market_data = None)]_vars

\* A run that loaded a miss from a record exactly ttl old.
C1_Witness ==
    \E r \in RunIds :
        /\ run[r].pc = "fetching"
        /\ run[r].market_data = None
        /\ file.kind = "record"
        /\ Time(now) - file.timestamp = file.ttl

\* C2: a requested identifier whose unexpired cached record carries the price
\* 100.0 is not kept from the cache; it is among the missing identifiers, one
\* task is submitted for it, and the run returns only after that task is done.
C2_SentinelRefetched ==
    \A r \in RunIds :
        InFlight(r) /\ run[r].market_data # None =>
            \A t \in Range(run[r].tickers) :
                (/\ t \in DOMAIN run[r].market_data[1]
                 /\ run[r].market_data[1][t].current_price = Some(SentinelPrice))
                =>
                (/\ t \in Range(run[r].missing_tickers)
                 /\ run[r].saved # None \/ run[r].pc = "fetching"
                 /\ run[r].pc = "returned" => run[r].pending = {})

\* A run that read a sentinel price for a requested identifier and fetched it.
C2_Witness ==
    \E r \in RunIds :
        /\ run[r].pc = "returned"
        /\ run[r].market_data # None
        /\ \E t \in Range(run[r].tickers) :
            /\ t \in DOMAIN run[r].market_data[1]
            /\ run[r].market_data[1][t].current_price = Some(SentinelPrice)
            /\ t \in Range(run[r].missing_tickers)

\* C3 as claimed: the returned map's key set is exactly the set of normalized
\* requested identifiers.
C3_KeySetExact ==
    \A r \in RunIds :
        run[r].pc = "returned" => DOMAIN run[r].ret[1] = Range(run[r].tickers)

\* C3 amended: every normalized requested identifier is a key of the returned
\* map; a key that was not requested is an identifier whose valid, unexpired
\* cached record was carried over unchanged.
C3_KeySetCovers ==
    \A r \in RunIds :
        run[r].pc = "returned" =>
            /\ run[r].ret # None
            /\ Range(run[r].tickers) \subseteq DOMAIN run[r].ret[1]
            /\ \A t \in DOMAIN run[r].ret[1] \ Range(run[r].tickers) :
                /\ run[r].market_data # None
                /\ t \in DOMAIN run[r].market_data[1]
                /\ ValidQuote(run[r].market_data[1][t])
                /\ run[r].ret[1][t] = run[r].market_data[1][t]

\* A run that fetched what it was asked for and returned a cached extra too.
C3_Witness ==
    \E r \in RunIds :
        /\ run[r].pc = "returned"
        /\ run[r].saved # None
        /\ Range(run[r].tickers) \subseteq DOMAIN run[r].ret[1]
        /\ DOMAIN run[r].ret[1] # Range(run[r].tickers)

\* C9: load_generic_cache does not raise; with no file, an unreadable file, a
\* file that is not JSON, or a record without timestamp or ttl it returns
\* None, and the run then starts exactly as it starts with no file at all.
C9_CorruptIsMiss ==
    [][\A r \in RunIds :
        Calls(r) /\ file.kind \in BrokenKinds \cup {"absent"} =>
            /\ run'[r].pc # "raised"
            /\ run'[r].market_data = None
            /\ run'[r] = [Start(BrokenFile("absent"), Time(now), run'[r].tickers)
                            EXCEPT !.input = run'[r].input]
            /\ run'[r].missing_tickers = run'[r].tickers]_vars

\* A run fetching every requested identifier over a file that is not JSON.
C9_Witness ==
    \E r \in RunIds :
        /\ run[r].pc = "fetching"
        /\ file.kind = "invalid_json"
        /\ run[r].market_data = None
        /\ run[r].missing_tickers = run[r].tickers

----------------------------------------------------------------------------
(* Claims about get_ticker_data (SpecTicker) *)

Done == tcall.pc = "returned"

Consulted(names) == Events(tret.log, names) # {}

FinnhubEvents == {"finnhub.key", "finnhub.quote", "finnhub.metric"}

AlphaVantageEvents == {"alpha_vantage.key", "alpha_vantage.quote"}

\* The primary answered with every field.
PrimaryFull ==
    /\ tcall.e.yf.kind = "ok"
    /\ Truthy(tcall.e.yf.currentPrice)
    /\ Truthy(tcall.e.yf.fiftyTwoWeekLow)
    /\ Truthy(tcall.e.yf.fiftyTwoWeekHigh)

C5_FieldMerge ==
    (/\ Done
     /\ tcall.e.yf.kind = "ok"
     /\ Truthy(tcall.e.yf.currentPrice)
     /\ ~Truthy(tcall.e.yf.fiftyTwoWeekLow)
     /\ tcall.e.finnhub_key = "configured"
     /\ tcall.e.finnhub_quote.kind = "ok"
     /\ ~Truthy(tcall.e.finnhub_quote.c)
     /\ tcall.e.finnhub_metric.kind = "ok"
     /\ Truthy(tcall.e.finnhub_metric.low)
     /\ ~Truthy(tcall.e.finnhub_metric.high))
    =>
    (/\ tret.data.current_price = tcall.e.yf.currentPrice
     /\ tret.data.year_low = tcall.e.finnhub_metric.low)

\* C6 as claimed: for an identifier of the static table the returned current
\* price is never absent, and an all-absent record means the identifier is not
\* in the table.
C6_StaticLast ==
    Done =>
        /\ tcall.ticker \in DOMAIN fallback_market_data =>
                tret.data.current_price # None
        /\ tret.data = NoQuote => tcall.ticker \notin DOMAIN fallback_market_data

\* The position of the one event named name, 0 when there is none.
At(name) ==
    IF Consulted({name}) THEN CHOOSE i \in DOMAIN tret.log : tret.log[i] = name ELSE 0

\* C7: with Finnhub's key not configured no request goes to Finnhub, the key
\* is looked up once, and the next step is Alpha Vantage's; with Alpha
\* Vantage's key not configured no request goes to Alpha Vantage, the key is
\* looked up once, and the call ends there with the empty record.
C7_MissingKeySkips ==
    Done =>
        /\ tcall.e.finnhub_key = "missing" =>
            /\ ~Consulted({"finnhub.quote", "finnhub.metric"})
            /\ Cardinality(Events(tret.log, {"finnhub.key"})) <= 1
            /\ Consulted({"finnhub.key"}) =>
                    /\ At("finnhub.key") < Len(tret.log)
                    /\ tret.log[At("finnhub.key") + 1] = "alpha_vantage.key"
        /\ tcall.e.alpha_vantage_key = "missing" =>
            /\ ~Consulted({"alpha_vantage.quote"})
            /\ Cardinality(Events(tret.log, {"alpha_vantage.key"})) <= 1
            /\ Consulted({"alpha_vantage.key"}) =>
                    /\ At("alpha_vantage.key") = Len(tret.log)
                    /\ tret.data = NoQuote

\* A call whose primary raised and whose two keys are both missing.
C7_Witness ==
    /\ Done
    /\ tcall.e.finnhub_key = "missing"
    /\ tcall.e.alpha_vantage_key = "missing"
    /\ tret.log = <<"yf.info", "finnhub.key", "alpha_vantage.key">>

OptionalNumbers == {None} \cup {Some(n) : n \in 0..Price(1000)}

\* C8: whatever the providers do, get_ticker_data returns, with a record of
\* exactly the three fields current_price, year_low and year_high.
C8_NeverPropagates ==
    Done =>
        /\ ~tret.raised
        /\ DOMAIN tret.data = {"current_price", "year_low", "year_high"}
        /\ \A k \in DOMAIN tret.data : tret.data[k] \in OptionalNumbers

\* A call in which every provider failed, the last one on float().
C8_Witness ==
    /\ Done
    /\ tcall.e.yf.kind = "malformed"
    /\ tcall.e.finnhub_key = "configured"
    /\ tcall.e.finnhub_quote.kind = "exception"
    /\ tcall.e.alpha_vantage_key = "configured"
    /\ tcall.e.alpha_vantage.kind = "ok"
    /\ tcall.e.alpha_vantage.price = Some("n/a")
    /\ tret.data = NoQuote

\* C10 as claimed: the chain leaves a provider that failed with an exception
\* only after that provider was tried again.
C10_RetriedBeforeAdvance ==
    Done /\ tcall.e.yf.kind = "exception" /\ Consulted(FinnhubEvents) =>
        Cardinality(Events(tret.log, {"yf.info"})) >= 2

----------------------------------------------------------------------------
(* Claims about process_ticker (SpecScreen) *)

ScreenDone == screen.pc = "returned" /\ screen.yf.kind = "ok" /\ screen.yf.info # EmptyDict

HasNumber(info, key) == key \in DOMAIN info /\ IsNumber(info[key])

NullOrAbsent(info, key) == key \notin DOMAIN info \/ info[key] = None

\* The free cash flow as the gates are stated: the provided value, else
\* operatingCashflow + capitalExpenditures when both exist, else 0.
StatedFcf(info) ==
    IF HasNumber(info, "freeCashflow") THEN info["freeCashflow"][1]
    ELSE IF HasNumber(info, "operatingCashflow") /\ HasNumber(info, "capitalExpenditures")
    THEN info["operatingCashflow"][1] + info["capitalExpenditures"][1]
    ELSE 0

\* The six gates as they are stated, read off the record alone.
StatedFail(info, k) ==
    CASE k = 1 -> \/ NullOrAbsent(info, "returnOnEquity")
                  \/ HasNumber(info, "returnOnEquity") /\ info["returnOnEquity"][1] < 15
      [] k = 2 -> \/ NullOrAbsent(info, "debtToEquity")
                  \/ HasNumber(info, "debtToEquity") /\ info["debtToEquity"][1] > 150
      [] k = 3 -> HasNumber(info, "grossMargins") /\ info["grossMargins"][1] < 20
      [] k = 4 -> HasNumber(info, "trailingPE")
                    /\ (info["trailingPE"][1] <= 0 \/ info["trailingPE"][1] > 35)
      [] k = 5 -> StatedFcf(info) < 0
      [] k = 6 -> HasNumber(info, "profitMargins") /\ info["profitMargins"][1] < 10

\* C11: a record that fails one of the six gates, taken in their order, is
\* rejected (None) no later than at the first gate it fails: the gates
\* evaluated are a prefix of the six that ends there or earlier, and no PEG
\* and no valuation status is computed for it.
C11_GatesInOrder ==
    ScreenDone =>
        \A k \in 1..Len(GateNames) :
            StatedFail(screen.yf.info, k)
                /\ (\A j \in 1..(k - 1) : ~StatedFail(screen.yf.info, j)) =>
                    /\ screen.out.row = None
                    /\ Len(screen.out.evaluated) <= k
                    /\ screen.out.evaluated = SubSeq(GateNames, 1, Len(screen.out.evaluated))
                    /\ (~screen.out.caught /\ (\A j \in 1..(k - 1) :
                            ~NullOrAbsent(screen.yf.info, GateNames[j]))
                            => Len(screen.out.evaluated) = k)
                    /\ screen.out.peg = None
                    /\ screen.out.status = None

\* A record rejected at the fifth gate on a derived free cash flow of -2,
\* after four gates passed.
C11_Witness ==
    /\ ScreenDone
    /\ "freeCashflow" \notin DOMAIN screen.yf.info
    /\ StatedFcf(screen.yf.info) < 0
    /\ screen.out.evaluated = SubSeq(GateNames, 1, 5)
    /\ ~screen.out.caught
    /\ screen.out.row = None

\* The record passed the six gates and nothing but the classification can
\* fail: marketCap, the one other field the row computes with, is a number
\* or absent.
PassedGates ==
    /\ ScreenDone
    /\ \A k \in 1..Len(GateNames) : Gates(screen.yf.info)[k] = "pass"
    /\ ~("marketCap" \in DOMAIN screen.yf.info /\ ~IsNumber(screen.yf.info["marketCap"]))

\* C12 as claimed: every record that passes the six gates yields a row,
\* whatever its revenueGrowth (null and absent included) and its PEG.
C12_GrowthNotAGate == PassedGates => screen.out.row # None

\* The bucket as stated, from the revenueGrowth of the record and the PEG
\* process_ticker computed.
StatedBucket(info, peg) ==
    LET rg == Get(info, "revenueGrowth", None) IN
    IF rg # None /\ rg[1] < 0 THEN "Declining"
    ELSE IF peg = None THEN "Unknown"
    ELSE IF rg # None /\ rg[1] > 0 /\ peg[1].n < peg[1].d THEN "Undervalued"
    ELSE IF rg # None /\ rg[1] > 0 /\ peg[1].n <= 2 * peg[1].d THEN "Fair"
    ELSE IF rg # None /\ rg[1] > 0 THEN "Overvalued"
    ELSE "Unknown"

\* C13 as claimed: every record that passed the gates gets the bucket of the
\* stated precedence: Declining on negative growth, else Unknown without a
\* PEG, else Undervalued, Fair or Overvalued by the PEG when growth is
\* positive, else Unknown.
C13_BucketPrecedence ==
    PassedGates =>
        screen.out.status = Some(StatedBucket(screen.yf.info, screen.out.peg))

\* C14: the PEG of the classification is the provider's pegRatio when the
\* record has one, else trailingPE / (earningsGrowth * 100) when the record
\* has an earningsGrowth > 0, else undefined.
C14_PegSource ==
    PassedGates =>
        LET info == screen.yf.info IN
        screen.out.peg =
            IF ~NullOrAbsent(info, "pegRatio")
            THEN Some(Frac(info["pegRatio"][1], 100))
            ELSE IF ~NullOrAbsent(info, "earningsGrowth") /\ info["earningsGrowth"][1] > 0
            THEN Some(Frac(info["trailingPE"][1], info["earningsGrowth"][1]))
            ELSE None

\* A record with pegRatio 2.5 and an earningsGrowth from which 0.8 would be
\* derived: the row carries 2.5 and is Overvalued.
C14_Witness ==
    /\ PassedGates
    /\ screen.yf.info["trailingPE"] = Some(20)
    /\ ~NullOrAbsent(screen.yf.info, "earningsGrowth")
    /\ screen.yf.info["earningsGrowth"] = Some(25)
    /\ ~NullOrAbsent(screen.yf.info, "pegRatio")
    /\ screen.yf.info["pegRatio"] = Some(250)
    /\ screen.out.row # None
    /\ screen.out.row[1].pegRatio = Frac(250, 100)
    /\ screen.out.status = Some("Overvalued")

----------------------------------------------------------------------------
(* Claims about the result cache (SpecStartup) *)

\* C15: the load of the result cache at startup, load_cache followed by the
\* column check of main, puts in the session state either nothing or the
\* whole stored table, and nothing whenever the stored table lacks one of the
\* required columns; a table in the session state has every required column.
C15_AllOrNothing ==
    startup.pc = "loaded" =>
        /\ startup.data \in {None, Some(startup.csv.df)}
        /\ startup.data # None =>
                /\ startup.csv.kind = "table"
                /\ required_columns \cup required_cols \subseteq startup.data[1].columns
        /\ (\E col \in required_columns \cup required_cols :
                col \notin startup.csv.df.columns) =>
                    startup.data = None /\ startup.last_updated = None

\* A stored table with every column but PEG, next to a readable metadata
\* file: load_cache accepts it, main discards it.
C15_Witness ==
    /\ startup.pc = "loaded"
    /\ startup.csv.kind = "table"
    /\ startup.csv.df.columns = (required_columns \cup required_cols) \ {"PEG"}
    /\ startup.meta.kind = "dict"
    /\ load_cache(startup.csv, startup.meta).df # None
    /\ startup.data = None

----------------------------------------------------------------------------
(* Claims about analyze_stocks (SpecAnalyze) *)

\* What screening identifier i alone gives.
Alone(i) == process_ticker(analysis.tickers[i], analysis.yf[i], analysis.market_data)

\* Identifier i met an exception: a provider error or a field it could not
\* compute with.
Failing(i) == Alone(i).caught

\* C16: an exception while screening one identifier never leaves
\* analyze_stocks, and the rows the call returns are the rows of the
\* identifiers that were screened without an exception and accepted, the
\* same as if the failing identifiers had been rejected.
C16_ExceptionIsolated ==
    /\ analysis.pc # "raised"
    /\ analysis.pc = "returned" =>
            /\ Range(analysis.selected_stocks) =
                    {Alone(i).row[1] : i \in {j \in DOMAIN analysis.tickers :
                                                ~Failing(j) /\ Alone(j).row # None}}
            /\ \A i \in DOMAIN analysis.tickers :
                    Failing(i) =>
                        \A k \in DOMAIN analysis.selected_stocks :
                            analysis.selected_stocks[k].ticker # analysis.tickers[i]

\* A batch of a provider error, a record with a string for returnOnEquity
\* and a passing record: one row is returned, for the third identifier.
C16_Witness ==
    /\ analysis.pc = "returned"
    /\ analysis.yf[1].kind = "exception"
    /\ Failing(2) /\ analysis.yf[2].kind = "ok"
    /\ Len(analysis.selected_stocks) = 1
    /\ analysis.selected_stocks[1].ticker = analysis.tickers[3]

----------------------------------------------------------------------------
(* Claims about the write-back, the tasks and the keys (Spec, SpecAge) *)

\* The step in which run r leaves the pool and returns.
Joins(r) == run[r].pc = "fetching" /\ run'[r].pc = "returned"

\* C17: in a run that needs a fetch the map is written to the cache once, as
\* a whole, in the step that follows the completion of every task: while a
\* task is pending the file does not change and save_generic_cache is not
\* called, and the run returns through exactly one call of it.
C17_WriteBackAfterBarrier ==
    [][\A r \in {"screening"} :
        /\ file' # file =>
                /\ Joins(r)
                /\ run[r].pending = {}
                /\ file'.kind = "record" =>
                        /\ file'.data = run[r].new_market_data
                        /\ Range(run[r].tickers) \subseteq DOMAIN file'.data
        /\ run'[r].saved # run[r].saved /\ run'[r].saved # None =>
                Joins(r) /\ run[r].pending = {}
        /\ Joins(r) => run[r].saved = None /\ run'[r].saved # None
        /\ run[r].pc = "fetching" /\ run[r].pending # {} =>
                file' = file /\ run'[r].saved = None]_vars

\* A run that fetched two identifiers and then wrote both in one record.
C17_Witness ==
    /\ run["screening"].pc = "returned"
    /\ Len(run["screening"].missing_tickers) = 2
    /\ run["screening"].missing_tickers[1] # run["screening"].missing_tickers[2]
    /\ run["screening"].saved = Some(TRUE)
    /\ file.kind = "record"
    /\ file.data = run["screening"].new_market_data
    /\ DOMAIN file.data = Range(run["screening"].missing_tickers)

\* C18 as claimed: in one run no two tasks are submitted for the same
\* normalized identifier, whatever the input list.
C18_OneTaskPerIdentifier ==
    \A r \in RunIds :
        run[r].pc = "fetching" =>
            \A i, j \in DOMAIN run[r].missing_tickers :
                run[r].missing_tickers[i] = run[r].missing_tickers[j] => i = j

MaxIdLen == 3

\* Strings of dots, dashes and a letter.
Identifiers == UNION {[1..n -> {"B", ".", "-"}] : n \in 0..MaxIdLen}

\* Normalize(Normalize(x)) = Normalize(x) on every bounded string and on the
\* identifiers of the runs.
IdempotentOnIdentifiers ==
    \A x \in Identifiers \cup RawTickers : Normalize(Normalize(x)) = Normalize(x)

\* The identifiers run r and the file hold as keys or give to tasks.
KeysOf(r) ==
    DOMAIN run[r].new_market_data \cup Range(run[r].missing_tickers)
        \cup (IF run[r].ret # None THEN DOMAIN run[r].ret[1] ELSE {})
        \cup DOMAIN file.data

\* C19: Normalize is idempotent and sends BRK.B and BRK-B to BRK-B; the
\* identifiers get_market_data works with are the normalized ones of its
\* input, so both spellings share one key of the map and of the file.
C19_NormalizeIdempotent ==
    /\ IdempotentOnIdentifiers
    /\ Normalize(BRK_DOT_B) = BRK_DASH_B
    /\ Normalize(BRK_DASH_B) = BRK_DASH_B
    /\ \A r \in RunIds :
        /\ run[r].tickers = [i \in DOMAIN run[r].input |-> Normalize(run[r].input[i])]
        /\ \A i \in DOMAIN run[r].input :
                run[r].input[i] \in {BRK_DOT_B, BRK_DASH_B} =>
                    run[r].tickers[i] = BRK_DASH_B
        /\ \A k \in KeysOf(r) : Normalize(k) = k /\ k # BRK_DOT_B

\* A run on the two spellings that returned a map with the one key BRK-B.
C19_Witness ==
    /\ run["screening"].pc = "returned"
    /\ run["screening"].input = <<BRK_DOT_B, BRK_DASH_B>>
    /\ run["screening"].ret # None
    /\ DOMAIN run["screening"].ret[1] = {BRK_DASH_B}
    /\ file.kind = "record"
    /\ DOMAIN file.data = {BRK_DASH_B}

\* C20 as claimed: a quote fetched from a provider, and stored, at time t is
\* not served from the cache at a time >= t + ttl: every quote a call keeps
\* from the file was first stored less than ttl ago.
C20_NeverExtended ==
    [][\A r \in {"screening"} :
        Calls(r) =>
            \A t \in DOMAIN run'[r].new_market_data :
                t \in DOMAIN born'.run /\ t \notin Range(run'[r].missing_tickers) =>
                    Time(now) - Time(born'.run[t]) < DefaultTtl]_vars

----------------------------------------------------------------------------
(* Claims about re-resolution, failed writes and the cache frame (Spec) *)

\* The identifiers of run r whose task is done.
Resolved(r) ==
    {run[r].missing_tickers[i] : i \in DOMAIN run[r].missing_tickers \ run[r].pending}

\* C21 as claimed: when an identifier is resolved again, a 52-week bound its
\* cached record had is kept where the new fetch left that bound empty.
C21_MergeCached ==
    \A r \in RunIds :
        InFlight(r) /\ run[r].market_data # None =>
            \A t \in Resolved(r) \cap DOMAIN run[r].market_data[1] :
                \A f \in {"year_low", "year_high"} :
                    run[r].market_data[1][t][f] # None =>
                        run[r].new_market_data[t][f] # None

\* C22: when the write fails, save_generic_cache returns False and raises
\* nothing, and get_market_data returns the whole in-memory map, the kept
\* cached records and the fetched ones, with every requested identifier.
C22_FailedWriteReported ==
    \A r \in RunIds :
        /\ run[r].pc # "raised"
        /\ run[r].pc = "returned" /\ run[r].saved = Some(FALSE) =>
            /\ run[r].ret = Some(run[r].new_market_data)
            /\ Range(run[r].tickers) \subseteq DOMAIN run[r].ret[1]
            /\ DOMAIN KeepValid(run[r].market_data) \subseteq DOMAIN run[r].ret[1]

\* A run whose write failed after it kept V from the cache and fetched BRK-B.
C22_Witness ==
    /\ run["screening"].pc = "returned"
    /\ run["screening"].saved = Some(FALSE)
    /\ run["screening"].missing_tickers = <<BRK_DASH_B>>
    /\ run["screening"].ret # None
    /\ DOMAIN run["screening"].ret[1] = {V_, BRK_DASH_B}

\* The requested identifiers of run r that the cache held unexpired with a
\* price that is present and not the sentinel.
CachedValid(r) ==
    IF run[r].market_data = None THEN {}
    ELSE {t \in Range(run[r].tickers) \cap DOMAIN run[r].market_data[1] :
            /\ Truthy(run[r].market_data[1][t].current_price)
            /\ run[r].market_data[1][t].current_price # Some(SentinelPrice)}

\* C23: no task is submitted for an identifier that is cached and valid, and
\* its record is the cached one; a run all of whose identifiers are cached
\* and valid, or whose list is empty, submits nothing and never calls
\* save_generic_cache.
C23_ValidNeverFetched ==
    \A r \in RunIds :
        run[r].pc \in {"fetching", "returned"} =>
            /\ Range(run[r].missing_tickers) \cap CachedValid(r) = {}
            /\ run[r].pending \subseteq DOMAIN run[r].missing_tickers
            /\ \A t \in CachedValid(r) :
                    run[r].new_market_data[t] = run[r].market_data[1][t]
            /\ CachedValid(r) = Range(run[r].tickers) =>
                    /\ run[r].pc = "returned"
                    /\ run[r].missing_tickers = <<>>
                    /\ run[r].saved = None
                    /\ run[r].tickers # <<>> => file.kind = "record"

\* A run on two identifiers, both cached and valid: returned at once, the
\* map being the cached one.
C23_Witness ==
    /\ run["screening"].pc = "returned"
    /\ run["screening"].tickers = <<V_, BRK_DASH_B>>
    /\ CachedValid("screening") = {V_, BRK_DASH_B}
    /\ run["screening"].saved = None
    /\ run["screening"].ret = Some(file.data)

\* C28: a record without a current price is written to the cache like any
\* other, and is never a hit: a run that requests its identifier while the
\* record is unexpired does not keep it and submits a task for the identifier.
C28_NoNegativeCaching ==
    \A r \in RunIds :
        /\ InFlight(r) /\ run[r].market_data # None =>
            \A t \in Range(run[r].tickers) \cap DOMAIN run[r].market_data[1] :
                ~Truthy(run[r].market_data[1][t].current_price) =>
                    /\ t \in Range(run[r].missing_tickers)
                    /\ t \notin DOMAIN KeepValid(run[r].market_data)
                    /\ run[r].pc = "returned" => run[r].saved # None
        /\ run[r].pc = "returned" /\ run[r].saved = Some(TRUE) =>
            \A t \in Range(run[r].missing_tickers) :
                file.data[t] = run[r].new_market_data[t]

\* A run that found BRK-B cached without a price, fetched it again, got no
\* price again, and wrote that record.
C28_Witness ==
    /\ run["screening"].pc = "returned"
    /\ run["screening"].market_data # None
    /\ BRK_DASH_B \in DOMAIN run["screening"].market_data[1]
    /\ run["screening"].market_data[1][BRK_DASH_B].current_price = None
    /\ run["screening"].missing_tickers = <<BRK_DASH_B>>
    /\ run["screening"].saved = Some(TRUE)
    /\ file.kind = "record"
    /\ file.data[BRK_DASH_B].current_price = None

\* C30 as claimed: a save_generic_cache that returns False leaves the cache
\* as it was: load_generic_cache gives after it what it gave before it.
C30_FailedPutNoChange ==
    [][\A r \in {"screening"} :
        Joins(r) /\ run'[r].saved = Some(FALSE) =>
            load_generic_cache(file', Time(now)) = load_generic_cache(file, Time(now))]_vars

\* C27 as claimed: a write-back drops no valid cached record: every record
\* the run loaded unexpired with a present, non-sentinel price is in the
\* cache, unchanged, after the write-back, requested or not.
C27_ValidRecordsSurvive ==
    [][\A r \in {"screening"} :
        Joins(r) =>
            \A t \in DOMAIN KeepValid(run[r].market_data) :
                /\ file'.kind = "record"
                /\ t \in DOMAIN file'.data
                /\ file'.data[t] = run[r].market_data[1][t]]_vars

----------------------------------------------------------------------------
(* Claims about the prices of a screened row (SpecScreen) *)

\* The value the row is claimed to carry for a field: the quote map's when it
\* is present there, else the one of the fundamentals record.
StatedField(field, key) ==
    LET t == Normalize(screen.ticker)
        md == screen.market_data
    IN  IF t \in DOMAIN md /\ md[t][field] # None THEN md[t][field]
        ELSE Get(screen.yf.info, key, None)

\* C29 as claimed: in a row, current price, 52-week high and 52-week low are
\* the quote map's values where present and the fundamentals record's
\* otherwise.
C29_PriceFallsBack ==
    ScreenDone /\ screen.out.row # None =>
        /\ screen.out.row[1].current_price = StatedField("current_price", "currentPrice")
        /\ screen.out.row[1].year_high = StatedField("year_high", "fiftyTwoWeekHigh")
        /\ screen.out.row[1].year_low = StatedField("year_low", "fiftyTwoWeekLow")

----------------------------------------------------------------------------
(* Claims about get_stock_details_cached (SpecDetails) *)

\* The places of the trace that hold an event ev.
Places(ev) == {k \in DOMAIN details.log : details.log[k].ev = ev}

\* C24 as claimed: at most 3 attempts, none after one that returned a record
\* with currentPrice; every attempt after the first comes right after a
\* backoff sleep whose bound grows with the attempt number; no sleep follows
\* the last attempt; the backup request comes only after 3 failed attempts.
C24_RetryWithBackoff ==
    details.pc = "returned" =>
        /\ Cardinality(Places("attempt")) <= max_retries
        /\ \A k \in Places("attempt") :
                /\ details.yf[details.log[k].n] = "ok" => k = Len(details.log)
                /\ details.log[k].n > 1 =>
                        /\ details.log[k - 1].ev = "sleep"
                        /\ details.log[k - 1].n = 3 * (details.log[k].n - 1)
        /\ \A k \in Places("sleep") :
                k < Len(details.log) /\ details.log[k + 1].ev = "attempt"
        /\ \A k \in Places("backup") :
                /\ Cardinality(Places("attempt")) = max_retries
                /\ \A j \in 1..max_retries : details.yf[j] # "ok"

----------------------------------------------------------------------------
(* Claims about save_cache and load_cache (SpecStore) *)

\* C25 as claimed: whatever load_cache returns, at any point, is a pair of
\* one run: the timestamp belongs to the run that produced the table.
C25_PairOfOneRun ==
    store.loaded.df # None =>
        store.loaded.last_updated = Some(store.loaded.df[1].rows)

----------------------------------------------------------------------------
(* Claims about overlapping runs of get_market_data (SpecOverlap) *)

\* The validly priced records run r fetched itself.
FetchedValid(r) ==
    {t \in Range(run[r].missing_tickers) \cap DOMAIN run[r].new_market_data :
        ValidQuote(run[r].new_market_data[t])}

\* The file holds the validly priced records run q fetched.
Held(q) ==
    \A t \in FetchedValid(q) :
        /\ t \in DOMAIN file.data
        /\ file.data[t] = run[q].new_market_data[t]

\* C26 as claimed: the write-back of one run never erases what the other run
\* fetched and wrote: records of a returned run that the file holds are still
\* in the file after the other run's write.
C26_BothRunsKept ==
    [][\A r \in RunIds : \A q \in RunIds \ {r} :
        /\ Joins(r)
        /\ run'[r].saved = Some(TRUE)
        /\ run[q].pc = "returned"
        /\ run[q].saved = Some(TRUE)
        /\ Held(q)
        => Held(q)']_vars

====
